---- MODULE Spec2Model ----
(***************************************************************************)
(* A model of scripts/pdf_editor.py: the three transforms rotate_pages,    *)
(* replace_text_in_pdf and add_footer_image, and the pipeline of main().   *)
(*                                                                         *)
(* Text (str) and content streams (bytes) are sequences of one-character   *)
(* strings. A document is the sequence of its pages; a page is a record    *)
(* of its /Rotate entry, its /Contents entry (NoContents when the page     *)
(* dictionary has no such key), its mediabox and the overlays merged onto  *)
(* it. The calls into PyPDF2 and reportlab are modelled by their contract  *)
(* at the call site that uses them.                                        *)
(***************************************************************************)
EXTENDS Integers, Sequences, FiniteSets, TLC

VARIABLES pc, args, fs, writer, exitCode, stdout, outFile, ran, draws, raised, call

vars == <<pc, args, fs, writer, exitCode, stdout, outFile, ran, draws, raised, call>>

mainVars == <<pc, args, fs, writer, exitCode, stdout, outFile, ran, draws, raised>>

(***************************************************************************)
(* Bounds of the model.                                                    *)
(***************************************************************************)
\* the longest document, in pages
MaxPages == 2
\* the longest content stream of the substitution inputs, in pieces
MaxPieces == 3

(***************************************************************************)
(* Python str / bytes primitives.                                          *)
(***************************************************************************)
Digits == {"0", "1", "2", "3", "4", "5", "6", "7", "8", "9"}

DigitVal(c) ==
    CASE c = "0" -> 0 [] c = "1" -> 1 [] c = "2" -> 2 [] c = "3" -> 3
      [] c = "4" -> 4 [] c = "5" -> 5 [] c = "6" -> 6 [] c = "7" -> 7
      [] c = "8" -> 8 [] c = "9" -> 9

\* the position of the first sep in s at or after i, 0 when there is none
RECURSIVE Find(_, _, _)
Find(s, sep, i) ==
    IF i > Len(s) THEN 0
    ELSE IF s[i] = sep THEN i
    ELSE Find(s, sep, i + 1)

\* str.split(sep) for a one-character separator: "" splits to [""]
RECURSIVE PySplit(_, _)
PySplit(s, sep) ==
    LET k == Find(s, sep, 1) IN
    IF k = 0 THEN <<s>>
    ELSE <<SubSeq(s, 1, k - 1)>> \o PySplit(SubSeq(s, k + 1, Len(s)), sep)

RECURSIVE DigitsValue(_, _)
DigitsValue(s, acc) ==
    IF s = <<>> THEN acc
    ELSE DigitsValue(Tail(s), 10 * acc + DigitVal(Head(s)))

\* int(tok): an optional sign and one or more decimal digits, else ValueError
PyInt(tok) ==
    LET signed == tok # <<>> /\ Head(tok) \in {"-", "+"}
        body == IF signed THEN Tail(tok) ELSE tok
        good == body # <<>> /\ \A i \in 1..Len(body) : body[i] \in Digits
    IN  IF ~good THEN [ok |-> FALSE, val |-> 0]
        ELSE [ok |-> TRUE,
              val |-> IF signed /\ Head(tok) = "-"
                      THEN 0 - DigitsValue(body, 0)
                      ELSE DigitsValue(body, 0)]

LowerChar(c) ==
    CASE c = "S" -> "s" [] c = "V" -> "v" [] c = "G" -> "g"
      [] c = "L" -> "l" [] c = "O" -> "o" [] c = "P" -> "p" [] c = "N" -> "n"
      [] OTHER -> c

\* str.lower()
PyLower(s) == [i \in 1..Len(s) |-> LowerChar(s[i])]

\* str.endswith(suffix)
PyEndsWith(s, suffix) ==
    /\ Len(s) >= Len(suffix)
    /\ SubSeq(s, Len(s) - Len(suffix) + 1, Len(s)) = suffix

\* str.encode('utf-8'): one byte per ASCII character, two for U+00E9
Utf8Char(c) == IF c = "U+00E9" THEN <<"0xC3", "0xA9">> ELSE <<c>>

RECURSIVE Utf8Encode(_)
Utf8Encode(s) ==
    IF s = <<>> THEN <<>> ELSE Utf8Char(Head(s)) \o Utf8Encode(Tail(s))

MatchAt(s, i, pat) ==
    /\ i + Len(pat) - 1 <= Len(s)
    /\ SubSeq(s, i, i + Len(pat) - 1) = pat

RECURSIVE Interleave(_, _)
Interleave(s, new) ==
    IF s = <<>> THEN new ELSE new \o <<Head(s)>> \o Interleave(Tail(s), new)

RECURSIVE ReplaceScan(_, _, _)
ReplaceScan(s, old, new) ==
    IF Len(s) < Len(old) THEN s
    ELSE IF MatchAt(s, 1, old)
    THEN new \o ReplaceScan(SubSeq(s, Len(old) + 1, Len(s)), old, new)
    ELSE <<Head(s)>> \o ReplaceScan(Tail(s), old, new)

\* bytes.replace(old, new, 1): the first occurrence alone
RECURSIVE BytesReplaceFirst(_, _, _)
BytesReplaceFirst(s, old, new) ==
    IF Len(s) < Len(old) \/ old = <<>> THEN s
    ELSE IF MatchAt(s, 1, old)
    THEN new \o SubSeq(s, Len(old) + 1, Len(s))
    ELSE <<Head(s)>> \o BytesReplaceFirst(Tail(s), old, new)

\* bytes.replace(old, new): every non-overlapping occurrence, left to right
BytesReplace(s, old, new) ==
    IF old = <<>> THEN Interleave(s, new) ELSE ReplaceScan(s, old, new)

(***************************************************************************)
(* Pages and documents.                                                    *)
(***************************************************************************)
NoContents == <<"<no /Contents key>">>

NoDoc == <<>>

\* what a transform returns or raises, with what it printed and drew
Returned(doc, out, n) ==
    [ok |-> TRUE, doc |-> doc, err |-> "", out |-> out, draws |-> n]

Raised(err, out, n) ==
    [ok |-> FALSE, doc |-> NoDoc, err |-> err, out |-> out, draws |-> n]

(***************************************************************************)
(* rotate_pages                                                            *)
(***************************************************************************)
\* a rotate that sets the angle instead of adding it
PageRotateAbsolute(page, angle) ==
    IF angle % 90 # 0
    THEN [ok |-> FALSE, page |-> page]
    ELSE [ok |-> TRUE, page |-> [page EXCEPT !.rot = angle]]

\* PageObject.rotate(angle): /Rotate becomes the stored angle plus angle;
\* an angle that is no multiple of 90 raises ValueError
PageRotate(page, angle) ==
    IF angle % 90 # 0
    THEN [ok |-> FALSE, page |-> page]
    ELSE [ok |-> TRUE, page |-> [page EXCEPT !.rot = @ + angle]]

\* the loop over range(len(reader.pages)); page_num is 0-indexed
RECURSIVE RotateLoop(_, _, _, _)
RotateLoop(pages, rotations, page_num, added) ==
    IF page_num >= Len(pages) THEN Returned(added, <<>>, 0)
    ELSE LET page == pages[page_num + 1] IN
         IF (page_num + 1) \in DOMAIN rotations
         THEN LET r == PageRotate(page, rotations[page_num + 1]) IN
              IF r.ok
              THEN RotateLoop(pages, rotations, page_num + 1, Append(added, r.page))
              ELSE Raised("ValueError", <<>>, 0)
         ELSE RotateLoop(pages, rotations, page_num + 1, Append(added, page))

rotate_pages(doc, rotations) == RotateLoop(doc, rotations, 0, <<>>)

(***************************************************************************)
(* replace_text_in_pdf                                                     *)
(***************************************************************************)
PyNone == <<"<None>">>

\* page["/Contents"]: the subscript of a dictionary raises KeyError for a
\* key the page does not have; it never yields None
PageGetContents(page) ==
    IF page.contents = NoContents
    THEN [ok |-> FALSE, val |-> PyNone]
    ELSE [ok |-> TRUE, val |-> page.contents]

\* the body of the loop for one page whose subscript succeeded
ReplaceInPage(page, item, old_text, new_text) ==
    IF item # PyNone
    THEN [page EXCEPT !.contents =
              BytesReplace(item, Utf8Encode(old_text), Utf8Encode(new_text))]
    ELSE page

RECURSIVE ReplaceLoop(_, _, _, _)
ReplaceLoop(pages, old_text, new_text, added) ==
    IF pages = <<>> THEN Returned(added, <<>>, 0)
    ELSE LET page == Head(pages)
             item == PageGetContents(page)
         IN  IF ~item.ok THEN Raised("KeyError", <<>>, 0)
             ELSE ReplaceLoop(Tail(pages), old_text, new_text,
                      Append(added, ReplaceInPage(page, item.val, old_text, new_text)))

replace_text_in_pdf(doc, old_text, new_text) ==
    ReplaceLoop(doc, old_text, new_text, <<>>)

(***************************************************************************)
(* add_footer_image                                                        *)
(***************************************************************************)
\* points from the right edge
FooterRightOffset == 50
\* points from the bottom
FooterY == 30
\* the image is drawn 30 x 30 points
ImageSize == 30

DotSvg == <<".", "s", "v", "g">>

Warning(e) == [kind |-> "warning", text |-> e]

\* canvas.drawImage: the page code gains the image operator when the file
\* at image_path decodes as a raster image, and the call raises otherwise
\* (a missing file, a file that is no raster image) leaving the code as is
drawImage(code, image_path, imageFile, x, y, width, height) ==
    IF imageFile = "image"
    THEN [ok |-> TRUE,
          code |-> Append(code, [image |-> image_path, x |-> x, y |-> y,
                                 width |-> width, height |-> height])]
    ELSE [ok |-> FALSE, code |-> code]

\* the try block: no draw for a path ending in .svg, else drawImage
DrawFooter(image_path, imageFile, footer_x, footer_y, image_size) ==
    IF PyEndsWith(PyLower(image_path), DotSvg)
    THEN [ok |-> TRUE, code |-> <<>>, drew |-> 0]
    ELSE LET d == drawImage(<<>>, image_path, imageFile,
                            footer_x - image_size, footer_y, image_size, image_size)
         IN  [ok |-> d.ok, code |-> d.code, drew |-> IF d.ok THEN 1 ELSE 0]

\* c.save() and PdfReader(footer_buffer).pages: save() emits the current
\* page only when page code has accumulated, so the overlay PDF of a canvas
\* nothing was drawn on has no page
CanvasSave(pagesize, code) ==
    IF Len(code) > 0 THEN <<[pagesize |-> pagesize, code |-> code]>> ELSE <<>>

\* page.merge_page(overlay)
MergePage(page, overlay) == [page EXCEPT !.overlays = Append(@, overlay)]

RECURSIVE FooterLoop(_, _, _, _, _, _)
FooterLoop(pages, image_path, imageFile, added, out, n) ==
    IF pages = <<>> THEN Returned(added, out, n)
    ELSE LET page == Head(pages)
             page_width_pts == page.mediabox[1]
             page_height_pts == page.mediabox[2]
             footer_x == page_width_pts - FooterRightOffset
             d == DrawFooter(image_path, imageFile, footer_x, FooterY, ImageSize)
             out2 == IF d.ok THEN out ELSE Append(out, Warning("draw failed"))
             footer_pdf == CanvasSave(<<page_width_pts, page_height_pts>>, d.code)
         IN  IF Len(footer_pdf) = 0
             THEN Raised("IndexError", out2, n + d.drew)
             ELSE FooterLoop(Tail(pages), image_path, imageFile,
                             Append(added, MergePage(page, footer_pdf[1])),
                             out2, n + d.drew)

add_footer_image(doc, image_path, imageFile) ==
    FooterLoop(doc, image_path, imageFile, <<>>, <<>>, 0)

(***************************************************************************)
(* main(): the command line, the file system and the pipeline.             *)
(***************************************************************************)
\* "if args.x:" is false for an option never given and for an empty string
Truthy(v) == v # PyNone /\ v # <<>>

EmptyDict == [k \in {} |-> 0]

\* rotations[k] = v
DictSet(d, k, v) == [x \in (DOMAIN d) \cup {k} |-> IF x = k THEN v ELSE d[x]]

\* the loop over args.rotate.split(","): an entry that does not split at
\* ":" into exactly two parts, or a part int() rejects, raises ValueError
RECURSIVE ParseEntries(_, _)
ParseEntries(entries, rotations) ==
    IF entries = <<>> THEN [ok |-> TRUE, rotations |-> rotations]
    ELSE LET parts == PySplit(Head(entries), ":") IN
         IF Len(parts) # 2 THEN [ok |-> FALSE, rotations |-> rotations]
         ELSE LET page == PyInt(parts[1])
                  angle == PyInt(parts[2])
              IN  IF ~page.ok \/ ~angle.ok
                  THEN [ok |-> FALSE, rotations |-> rotations]
                  ELSE ParseEntries(Tail(entries),
                                    DictSet(rotations, page.val, angle.val))

ParseRotate(spec) == ParseEntries(PySplit(spec, ","), EmptyDict)

\* an existence check that lets every path through
PathExistsAlways(path) == TRUE

\* Path(args.input).exists()
PathExists(path) == fs.files[path].kind # "missing"

\* Path(args.footer_image).exists()
FooterExists == fs.image # "missing"

\* PdfReader(path): the pages of the PDF at path, read afresh
PdfReader(path) ==
    LET f == fs.files[path] IN
    IF f.kind = "pdf" THEN [ok |-> TRUE, doc |-> f.doc, err |-> ""]
    ELSE IF f.kind = "missing"
    THEN [ok |-> FALSE, doc |-> NoDoc, err |-> "FileNotFoundError"]
    ELSE [ok |-> FALSE, doc |-> NoDoc, err |-> "PdfReadError"]

\* a transform handed the working result of the transform before it
TransformInputChained == writer.doc

\* the document each transform works on: it is handed args.input and reads
\* that file itself
TransformInput == PdfReader(args.input).doc

NoRaise == [stage |-> "", err |-> ""]

\* the statement completed: control moves on with the new working result
Continue(next, w, printed, n) ==
    /\ pc' = next
    /\ writer' = w
    /\ stdout' = stdout \o printed
    /\ draws' = draws + n
    /\ UNCHANGED <<exitCode, raised>>

\* a handler that prints the error and lets the process end normally
ExceptHandlerSwallow(stage, e, printed, n) ==
    /\ stdout' = Append(stdout \o printed, [kind |-> "error", text |-> e])
    /\ exitCode' = 0
    /\ pc' = "done"
    /\ raised' = [stage |-> stage, err |-> e]
    /\ draws' = draws + n
    /\ UNCHANGED writer

\* except Exception as e: print the error, sys.exit(1)
ExceptHandler(stage, e, printed, n) ==
    /\ stdout' = Append(stdout \o printed, [kind |-> "error", text |-> e])
    /\ exitCode' = 1
    /\ pc' = "done"
    /\ raised' = [stage |-> stage, err |-> e]
    /\ draws' = draws + n
    /\ UNCHANGED writer

\* a transform returned or raised
AfterTransform(stage, next, r) ==
    IF r.ok
    THEN Continue(next, [kind |-> "PdfWriter", doc |-> r.doc], r.out, r.draws)
    ELSE ExceptHandler(stage, r.err, r.out, r.draws)

\* if not Path(args.input).exists(): print, sys.exit(1)
CheckInput ==
    /\ pc = "check_input"
    /\ IF ~PathExists(args.input)
       THEN /\ stdout' = Append(stdout, [kind |-> "input_not_found", text |-> args.input])
            /\ exitCode' = 1
            /\ pc' = "done"
       ELSE /\ pc' = "load"
            /\ UNCHANGED <<stdout, exitCode>>
    /\ UNCHANGED <<args, fs, writer, outFile, ran, draws, raised, call>>

\* a load that has already opened the output for writing
LoadOpensOutput ==
    /\ pc = "load"
    /\ LET r == PdfReader(args.input) IN
       IF r.ok
       THEN Continue("rotate", [kind |-> "PdfReader", doc |-> r.doc], <<>>, 0)
       ELSE ExceptHandler("load", r.err, <<>>, 0)
    /\ outFile' = [state |-> "truncated", doc |-> NoDoc]
    /\ UNCHANGED <<args, fs, ran, call>>

\* writer = PdfReader(args.input)
Load ==
    /\ pc = "load"
    /\ LET r == PdfReader(args.input) IN
       IF r.ok
       THEN Continue("rotate", [kind |-> "PdfReader", doc |-> r.doc], <<>>, 0)
       ELSE ExceptHandler("load", r.err, <<>>, 0)
    /\ UNCHANGED <<args, fs, outFile, ran, call>>

\* if args.rotate: parse the spec, writer = rotate_pages(args.input, rotations)
RotateStep ==
    /\ pc = "rotate"
    /\ IF ~Truthy(args.rotate)
       THEN Continue("replace", writer, <<>>, 0) /\ UNCHANGED ran
       ELSE LET p == ParseRotate(args.rotate) IN
            IF ~p.ok
            THEN ExceptHandler("parse", "ValueError", <<>>, 0) /\ UNCHANGED ran
            ELSE /\ ran' = Append(ran, "rotate_pages")
                 /\ AfterTransform("rotate", "replace",
                                   rotate_pages(TransformInput, p.rotations))
    /\ UNCHANGED <<args, fs, outFile, call>>

\* if args.replace_url: writer = replace_text_in_pdf(args.input, old, new)
ReplaceStep ==
    /\ pc = "replace"
    /\ IF args.replace_url = PyNone
       THEN Continue("footer", writer, <<>>, 0) /\ UNCHANGED ran
       ELSE /\ ran' = Append(ran, "replace_text_in_pdf")
            /\ AfterTransform("replace", "footer",
                   replace_text_in_pdf(TransformInput,
                                       args.replace_url[1], args.replace_url[2]))
    /\ UNCHANGED <<args, fs, outFile, call>>

\* if args.footer_image: the existence check, which prints and leaves with
\* sys.exit(1) (SystemExit is no Exception: the handler does not run), then
\* writer = add_footer_image(args.input, args.footer_image)
FooterStep ==
    /\ pc = "footer"
    /\ IF ~Truthy(args.footer_image)
       THEN Continue("write", writer, <<>>, 0) /\ UNCHANGED ran
       ELSE IF ~FooterExists
       THEN /\ stdout' = Append(stdout, [kind |-> "footer_not_found",
                                         text |-> args.footer_image])
            /\ exitCode' = 1
            /\ pc' = "done"
            /\ raised' = [stage |-> "footer_check", err |-> "SystemExit"]
            /\ UNCHANGED <<writer, draws, ran>>
       ELSE /\ ran' = Append(ran, "add_footer_image")
            /\ AfterTransform("footer", "write",
                   add_footer_image(TransformInput, args.footer_image, fs.image))
    /\ UNCHANGED <<args, fs, outFile, call>>

\* open(args.output, "wb") creates the file or cuts it to nothing
Opened == [state |-> "truncated", doc |-> NoDoc]

\* with open(args.output, "wb") as f: writer.write(f). Only a PdfWriter has
\* a write method.
Write ==
    /\ pc = "write"
    /\ IF fs.env = "open_fails"
       THEN ExceptHandler("open", "OSError", <<>>, 0) /\ UNCHANGED outFile
       ELSE IF writer.kind # "PdfWriter"
       THEN ExceptHandler("write", "AttributeError", <<>>, 0) /\ outFile' = Opened
       ELSE IF fs.env = "write_fails"
       THEN ExceptHandler("write", "OSError", <<>>, 0) /\ outFile' = Opened
       ELSE /\ Continue("print", writer, <<>>, 0)
            /\ outFile' = [state |-> "written", doc |-> writer.doc]
    /\ UNCHANGED <<args, fs, ran, call>>

\* print the success message; main() returns and the process exits with 0
PrintSuccess ==
    /\ pc = "print"
    /\ IF fs.env = "print_fails"
       THEN ExceptHandler("print", "UnicodeEncodeError", <<>>, 0)
       ELSE /\ stdout' = Append(stdout, [kind |-> "success", text |-> args.output])
            /\ exitCode' = 0
            /\ pc' = "done"
            /\ UNCHANGED <<writer, draws, raised>>
    /\ UNCHANGED <<args, fs, outFile, ran, call>>

(***************************************************************************)
(* The inputs the runs are drawn from.                                     *)
(***************************************************************************)
\* "team-wiki.local" and "team-wiki.etc.com"
OldUrl == <<"t", "e", "a", "m", "-", "w", "i", "k", "i", ".", "l", "o", "c", "a", "l">>

NewUrl == <<"t", "e", "a", "m", "-", "w", "i", "k", "i", ".", "e", "t", "c", ".", "c", "o", "m">>

\* every sequence over S of length 0..n
SeqsUpTo(S, n) == UNION {[1..k -> S] : k \in 0..n}

Letter == <<612, 792>>

A4 == <<595, 842>>

Page(rot, contents, mediabox) ==
    [rot |-> rot, contents |-> contents, mediabox |-> mediabox, overlays |-> <<>>]

\* a page showing the old URL, a rotated page without it, and a page whose
\* dictionary has no /Contents
UrlPage == Page(0, <<"(">> \o OldUrl \o <<")">>, Letter)

PlainPage == Page(90, <<"q", " ", "Q">>, A4)

BlankPage == Page(270, NoContents, Letter)

MainDocs == SeqsUpTo({UrlPage, PlainPage, BlankPage}, MaxPages)

RotateArgs ==
    { PyNone, <<>>,
      <<"1", ":", "9", "0">>, <<"2", ":", "1", "8", "0">>, <<"1", ":", "9", "0", ",", "2", ":", "-", "9", "0">>, <<"1", ":", "4", "5">>, <<"3", ":", "9", "0">>,
      <<"1", ":", "9", "0", ",", "1", ":", "1", "8", "0">>, <<"1">>, <<"1", ":", "9", "0", ":", "5">>, <<"x", ":", "9", "0">>, <<"1", ":", "9", "0", ",">> }

ReplaceArgs == {PyNone, <<OldUrl, NewUrl>>}

FooterPaths == { <<"l", "o", "g", "o", ".", "s", "v", "g">>, <<"L", "O", "G", "O", ".", "S", "V", "G">>, <<"l", "o", "g", "o", ".", "p", "n", "g">> }

FooterArgs == {PyNone} \cup FooterPaths

ImageFiles == {"missing", "image", "other"}

Envs == {"ok", "open_fails", "write_fails", "print_fails"}

Missing == [kind |-> "missing", doc |-> NoDoc]

InputFiles == {[kind |-> "corrupt", doc |-> NoDoc]} \cup {[kind |-> "pdf", doc |-> d] : d \in MainDocs}

OutFiles == {[state |-> "absent", doc |-> NoDoc], [state |-> "stale", doc |-> NoDoc]}

NoCall == [fn |-> "", state |-> "idle"]

Init ==
    /\ pc = "check_input"
    /\ \E input \in {"in.pdf", "gone.pdf"}, rotate \in RotateArgs,
          replace_url \in ReplaceArgs, footer_image \in FooterArgs :
          args = [input |-> input, output |-> "out.pdf", rotate |-> rotate,
                  replace_url |-> replace_url, footer_image |-> footer_image]
    /\ \E f \in InputFiles, image \in ImageFiles, env \in Envs :
          /\ fs = [files |-> [path \in {"in.pdf", "gone.pdf"} |->
                                 IF path = "in.pdf" THEN f ELSE Missing],
                   image |-> image, env |-> env]
          /\ (args.footer_image = PyNone => image = "missing")
          /\ (args.input = "gone.pdf" => f.kind = "corrupt")
    /\ outFile \in OutFiles
    /\ writer = [kind |-> "", doc |-> NoDoc]
    /\ exitCode = -1
    /\ stdout = <<>>
    /\ ran = <<>>
    /\ draws = 0
    /\ raised = NoRaise
    /\ call = NoCall

Next ==
    \/ CheckInput
    \/ Load
    \/ RotateStep
    \/ ReplaceStep
    \/ FooterStep
    \/ Write
    \/ PrintSuccess

Spec == Init /\ [][Next]_vars

(***************************************************************************)
(* The transforms called on their own: one call of one function on inputs  *)
(* drawn from bounded sets, the pipeline of main() standing idle.          *)
(***************************************************************************)
NoResult == [ok |-> FALSE, doc |-> NoDoc, err |-> "not called", out |-> <<>>, draws |-> 0]

MainIdle ==
    /\ pc = "idle"
    /\ args = [input |-> "in.pdf", output |-> "out.pdf", rotate |-> PyNone,
               replace_url |-> PyNone, footer_image |-> PyNone]
    /\ fs = [files |-> [path \in {"in.pdf", "gone.pdf"} |-> Missing],
             image |-> "missing", env |-> "ok"]
    /\ outFile = [state |-> "absent", doc |-> NoDoc]
    /\ writer = [kind |-> "", doc |-> NoDoc]
    /\ exitCode = -1
    /\ stdout = <<>>
    /\ ran = <<>>
    /\ draws = 0
    /\ raised = NoRaise

\* --- rotate_pages ---
RotPages == {Page(r, <<"q">>, Letter) : r \in {0, 90, 180, 270}}

RotDocs == SeqsUpTo(RotPages, MaxPages)

\* page numbers 0 and MaxPages + 1 name no page of any document
RotKeys == 0..(MaxPages + 1)

RotAngles == {90, 180, -90, 45}

RotMaps == UNION {[K -> RotAngles] : K \in SUBSET RotKeys}

InitRotate ==
    /\ MainIdle
    /\ \E doc \in RotDocs, rotations \in RotMaps :
          call = [fn |-> "rotate_pages", state |-> "ready", doc |-> doc,
                  rotations |-> rotations, result |-> NoResult]

CallRotate ==
    /\ call.state = "ready"
    /\ call.fn = "rotate_pages"
    /\ call' = [call EXCEPT !.state = "returned",
                            !.result = rotate_pages(call.doc, call.rotations)]
    /\ UNCHANGED mainVars

SpecRotate == InitRotate /\ [][CallRotate]_vars

\* --- replace_text_in_pdf ---
Pieces ==
    { OldUrl, NewUrl, <<"t", "e", "a", "m", "-", "w", "i", "k", "i", ".">>, <<"l", "o", "c", "a", "l">>,
      <<" ">>, <<"0xC3", "0xA9">> }

RECURSIVE Concat(_)
Concat(ss) == IF ss = <<>> THEN <<>> ELSE Head(ss) \o Concat(Tail(ss))

Streams == {Concat(ss) : ss \in SeqsUpTo(Pieces, MaxPieces)}

OtherPages == SeqsUpTo({UrlPage, PlainPage, BlankPage}, MaxPages - 1)

ReplaceDocs ==
    {<<Page(0, c, Letter)>> \o rest : c \in Streams, rest \in OtherPages}
        \cup {rest \o <<Page(0, c, Letter)>> : c \in Streams, rest \in OtherPages}

ReplacePairs == {<<OldUrl, NewUrl>>, <<<<"U+00E9">>, <<"e">>>>}

InitReplace ==
    /\ MainIdle
    /\ \E doc \in ReplaceDocs, pair \in ReplacePairs :
          call = [fn |-> "replace_text_in_pdf", state |-> "ready", doc |-> doc,
                  old_text |-> pair[1], new_text |-> pair[2], result |-> NoResult]

CallReplace ==
    /\ call.state = "ready"
    /\ call.fn = "replace_text_in_pdf"
    /\ call' = [call EXCEPT !.state = "returned",
                            !.result = replace_text_in_pdf(call.doc, call.old_text,
                                                           call.new_text)]
    /\ UNCHANGED mainVars

SpecReplace == InitReplace /\ [][CallReplace]_vars

\* --- add_footer_image ---
InitFooter ==
    /\ MainIdle
    /\ \E doc \in MainDocs, image_path \in FooterPaths, imageFile \in ImageFiles :
          call = [fn |-> "add_footer_image", state |-> "ready", doc |-> doc,
                  image_path |-> image_path, imageFile |-> imageFile,
                  result |-> NoResult]

CallFooter ==
    /\ call.state = "ready"
    /\ call.fn = "add_footer_image"
    /\ call' = [call EXCEPT !.state = "returned",
                            !.result = add_footer_image(call.doc, call.image_path,
                                                        call.imageFile)]
    /\ UNCHANGED mainVars

SpecFooter == InitFooter /\ [][CallFooter]_vars

(***************************************************************************)
(* Properties.                                                             *)
(***************************************************************************)
InputDoc == fs.files[args.input].doc

InputLoads == fs.files[args.input].kind = "pdf"

RotateRequested == Truthy(args.rotate)

ReplaceRequested == args.replace_url # PyNone

FooterRequested == Truthy(args.footer_image)

Requested ==
    (IF RotateRequested THEN {"rotate"} ELSE {})
        \cup (IF ReplaceRequested THEN {"replace"} ELSE {})
        \cup (IF FooterRequested THEN {"footer"} ELSE {})

OutputUntouched == outFile.state \in {"absent", "stale"}

Printed(kind) == \E i \in 1..Len(stdout) : stdout[i].kind = kind

\* the number of positions of s at which pat occurs
CountOcc(s, pat) == Cardinality({i \in 1..Len(s) : MatchAt(s, i, pat)})

\* an entry of the rotate spec of the form integer:integer
IsIntegerText(t) ==
    LET body == IF t # <<>> /\ Head(t) \in {"-", "+"} THEN Tail(t) ELSE t
    IN  body # <<>> /\ \A i \in 1..Len(body) : body[i] \in Digits

IntColonInt(entry) ==
    \E k \in 1..Len(entry) :
        /\ entry[k] = ":"
        /\ IsIntegerText(SubSeq(entry, 1, k - 1))
        /\ IsIntegerText(SubSeq(entry, k + 1, Len(entry)))

Malformed(spec) ==
    \E i \in 1..Len(PySplit(spec, ",")) : ~IntColonInt(PySplit(spec, ",")[i])

\* C1: when more than one of --rotate, --replace-url and --footer-image is
\* given, the document written to the output is the original input with
\* only the last requested transform applied (order rotate, replace,
\* footer): with --rotate and --replace-url the content streams are
\* substituted and every page keeps its input rotation; with --footer-image
\* neither the rotation nor the substitution appears.
C1_LastTransformOnly ==
    (pc = "done" /\ outFile.state = "written" /\ Cardinality(Requested) >= 2) =>
        /\ Len(outFile.doc) = Len(InputDoc)
        /\ \A i \in 1..Len(InputDoc) :
              /\ outFile.doc[i].rot = InputDoc[i].rot
              /\ outFile.doc[i].mediabox = InputDoc[i].mediabox
        /\ FooterRequested =>
              /\ outFile.doc =
                     add_footer_image(InputDoc, args.footer_image, fs.image).doc
              /\ \A i \in 1..Len(InputDoc) :
                     /\ outFile.doc[i].contents = InputDoc[i].contents
                     /\ Len(outFile.doc[i].overlays) = 1
        /\ ~FooterRequested =>
              /\ outFile.doc =
                     replace_text_in_pdf(InputDoc, args.replace_url[1],
                                         args.replace_url[2]).doc
              /\ \A i \in 1..Len(InputDoc) :
                     /\ outFile.doc[i].contents =
                            BytesReplace(InputDoc[i].contents,
                                         Utf8Encode(args.replace_url[1]),
                                         Utf8Encode(args.replace_url[2]))
                     /\ outFile.doc[i].overlays = <<>>

\* a run with --rotate and --replace-url whose rotation would have turned a
\* page and whose substitution changed one
C1_Witness ==
    /\ pc = "done" /\ exitCode = 0 /\ outFile.state = "written"
    /\ RotateRequested /\ ReplaceRequested /\ ~FooterRequested
    /\ ran = <<"rotate_pages", "replace_text_in_pdf">>
    /\ \E i \in 1..Len(InputDoc) :
          /\ rotate_pages(InputDoc, ParseRotate(args.rotate).rotations).doc[i].rot
                 # InputDoc[i].rot
          /\ outFile.doc[i].contents # InputDoc[i].contents

\* a run with a footer drawn and the other two transforms requested too
C1_WitnessFooter ==
    /\ pc = "done" /\ exitCode = 0 /\ outFile.state = "written"
    /\ ran = <<"rotate_pages", "replace_text_in_pdf", "add_footer_image">>
    /\ Len(InputDoc) > 0 /\ draws = Len(InputDoc)

\* C4: when the --input path does not exist, main() prints an error naming
\* that path and exits with code 1, without opening or creating the output
\* file and without running any transform, whatever other flags are given.
C4_MissingInput ==
    (pc # "idle" /\ fs.files[args.input].kind = "missing") =>
        /\ pc \in {"check_input", "done"}
        /\ ran = <<>> /\ draws = 0 /\ writer.kind = ""
        /\ OutputUntouched
        /\ pc = "done" =>
              /\ exitCode = 1
              /\ Len(stdout) = 1
              /\ stdout[1].kind = "input_not_found"
              /\ stdout[1].text = args.input

C4_Witness ==
    /\ pc = "done" /\ fs.files[args.input].kind = "missing"
    /\ RotateRequested /\ ReplaceRequested /\ FooterRequested
    /\ exitCode = 1

\* C5: every run of main() with an existing input ends with exit code 0 or
\* 1; the code is 1 whenever the footer image file is missing, an entry of
\* the rotate spec is not of the form integer:integer, or an exception was
\* raised, whatever the other flags; it is 0 only when the output document
\* was written and the success message printed.
C5_ExitCodes ==
    (pc = "done" /\ fs.files[args.input].kind # "missing") =>
        /\ exitCode \in {0, 1}
        /\ (FooterRequested /\ ~FooterExists) => exitCode = 1
        /\ (RotateRequested /\ Malformed(args.rotate)) => exitCode = 1
        /\ raised # NoRaise => exitCode = 1
        /\ exitCode = 0 =>
              /\ outFile.state = "written"
              /\ stdout # <<>> /\ stdout[Len(stdout)].kind = "success"
              /\ raised = NoRaise

\* the footer image is missing while the rotate spec and the replacement
\* were valid and ran
C5_Witness ==
    /\ pc = "done" /\ exitCode = 1
    /\ FooterRequested /\ ~FooterExists
    /\ ran = <<"rotate_pages", "replace_text_in_pdf">>
    /\ Printed("footer_not_found")

\* C6 as stated: a run that fails at any stage of the pipeline (loading,
\* parsing the rotate spec, a transform, the footer-image check, writing)
\* exits with 1 and has not created or truncated the output path.
C6_NoOutputOnFailure ==
    (pc = "done" /\ exitCode = 1 /\ raised.stage # "print") => OutputUntouched

\* C6 amended: a run that fails before writer.write is called (loading,
\* parsing the rotate spec, a transform, the footer-image check, or the
\* open of the output itself) has not created or truncated the output path.
C6_NoOutputOnEarlyFailure ==
    (pc = "done" /\ exitCode = 1 /\ raised.stage \notin {"write", "print"}) =>
        OutputUntouched

C6_Witness ==
    /\ pc = "done" /\ exitCode = 1
    /\ raised.stage = "replace"
    /\ ran = <<"rotate_pages", "replace_text_in_pdf">>
    /\ outFile.state = "stale"

\* C8: with --footer-image naming an existing file whose path ends in .svg
\* (case-insensitively), the run draws no image, prints no warning, writes
\* an output with the page count of the input and exits with code 0.
C8_SvgFooterSucceeds ==
    ( /\ pc = "done" /\ InputLoads /\ fs.env = "ok"
      /\ ~RotateRequested /\ ~ReplaceRequested
      /\ FooterRequested /\ FooterExists
      /\ PyEndsWith(PyLower(args.footer_image), DotSvg) ) =>
        /\ draws = 0
        /\ ~Printed("warning")
        /\ exitCode = 0
        /\ Printed("success")
        /\ outFile.state = "written"
        /\ Len(outFile.doc) = Len(InputDoc)

\* C9: with an existing input and none of --rotate, --replace-url and
\* --footer-image, the loaded document is written to the output path and
\* the run exits with code 0.
C9_ZeroTransforms ==
    ( /\ pc = "done" /\ InputLoads /\ fs.env = "ok"
      /\ Requested = {} ) =>
        /\ exitCode = 0
        /\ outFile.state = "written"
        /\ outFile.doc = InputDoc

\* the page numbers of the mapping that name a page of the document
InRangeKeys == (DOMAIN call.rotations) \cap (1..Len(call.doc))

\* the result holds the pages of the input, in order, each turned by its
\* angle of the mapping (modulo 360) or left as it was
RotatedAsMapped ==
    /\ call.result.ok
    /\ Len(call.result.doc) = Len(call.doc)
    /\ \A i \in 1..Len(call.doc) :
          /\ call.result.doc[i].contents = call.doc[i].contents
          /\ call.result.doc[i].mediabox = call.doc[i].mediabox
          /\ call.result.doc[i].overlays = call.doc[i].overlays
          /\ IF i \in DOMAIN call.rotations
             THEN call.result.doc[i].rot % 360
                      = (call.doc[i].rot + call.rotations[i]) % 360
             ELSE call.result.doc[i].rot = call.doc[i].rot

\* C2 as stated: for every N-page document and every mapping from integer
\* page numbers to angles, rotate_pages returns the same N pages in order,
\* page i turned by mapping[i] modulo 360 when i is a key and unchanged
\* otherwise; keys outside 1..N raise no error and change no page.
C2_RotateEveryMapping ==
    (call.fn = "rotate_pages" /\ call.state = "returned") => RotatedAsMapped

\* C2 amended: the same, for every mapping whose angles at the keys within
\* 1..N are multiples of 90; an angle that is no multiple of 90 at such a
\* key makes rotate_pages raise ValueError instead of returning.
C2_RotateMultiplesOf90 ==
    (call.fn = "rotate_pages" /\ call.state = "returned") =>
        IF \A i \in InRangeKeys : call.rotations[i] % 90 = 0
        THEN RotatedAsMapped
        ELSE ~call.result.ok /\ call.result.err = "ValueError"

\* a two-page call that turns page 1, leaves page 2 alone and carries keys
\* outside 1..N, one of them with an angle that is no multiple of 90
C2_Witness ==
    /\ call.fn = "rotate_pages" /\ call.state = "returned" /\ call.result.ok
    /\ Len(call.doc) = 2
    /\ DOMAIN call.rotations = {0, 1, 3}
    /\ call.rotations[3] = 45
    /\ call.doc[1].rot = 270 /\ call.rotations[1] = 180
    /\ call.result.doc[1].rot # call.doc[1].rot
    /\ call.result.doc[2].rot = call.doc[2].rot

UrlCall ==
    /\ call.fn = "replace_text_in_pdf" /\ call.state = "returned"
    /\ call.old_text = OldUrl /\ call.new_text = NewUrl

\* C3 as stated: for old = "team-wiki.local" and new = "team-wiki.etc.com",
\* every content stream that contains the old string ends with no occurrence
\* of the old string and with as many occurrences of the new string as the
\* input stream had of the old one.
C3_ReplaceCounts ==
    (UrlCall /\ call.result.ok) =>
        \A i \in 1..Len(call.doc) :
            CountOcc(call.doc[i].contents, OldUrl) > 0 =>
                /\ CountOcc(call.result.doc[i].contents, OldUrl) = 0
                /\ CountOcc(call.result.doc[i].contents, NewUrl)
                       = CountOcc(call.doc[i].contents, OldUrl)

\* C3 amended: every such content stream ends with no occurrence of the old
\* string and with as many occurrences of the new string as the input
\* stream had of the old string and of the new string together.
C3_ReplaceCountsWithExisting ==
    (UrlCall /\ call.result.ok) =>
        \A i \in 1..Len(call.doc) :
            CountOcc(call.doc[i].contents, OldUrl) > 0 =>
                /\ CountOcc(call.result.doc[i].contents, OldUrl) = 0
                /\ CountOcc(call.result.doc[i].contents, NewUrl)
                       = CountOcc(call.doc[i].contents, OldUrl)
                             + CountOcc(call.doc[i].contents, NewUrl)

\* a stream with the old string twice and the new string once already
C3_Witness ==
    /\ UrlCall /\ call.result.ok
    /\ \E i \in 1..Len(call.doc) :
          /\ CountOcc(call.doc[i].contents, OldUrl) = 2
          /\ CountOcc(call.doc[i].contents, NewUrl) = 1
          /\ CountOcc(call.result.doc[i].contents, NewUrl) = 3

\* C10: in replace_text_in_pdf a page with no /Contents entry is passed
\* through unchanged: it is added to the result as it is, no error is
\* raised, and the other pages are still processed and substituted.
C10_NoContentsPassThrough ==
    ( /\ call.fn = "replace_text_in_pdf" /\ call.state = "returned"
      /\ \E i \in 1..Len(call.doc) : call.doc[i].contents = NoContents ) =>
        /\ call.result.ok
        /\ Len(call.result.doc) = Len(call.doc)
        /\ \A i \in 1..Len(call.doc) :
              call.result.doc[i] =
                  IF call.doc[i].contents = NoContents THEN call.doc[i]
                  ELSE [call.doc[i] EXCEPT !.contents =
                           BytesReplace(@, Utf8Encode(call.old_text),
                                        Utf8Encode(call.new_text))]

\* C7: for every N-page document and every image path, add_footer_image
\* returns the same N pages in order, each merged with exactly one overlay
\* of the size of its own mediabox; a drawing failure on a page is caught
\* and logged as a warning and never aborts the run, drops the page or
\* keeps the remaining pages from being processed.
C7_FooterKeepsPages ==
    (call.fn = "add_footer_image" /\ call.state = "returned") =>
        /\ call.result.ok
        /\ Len(call.result.doc) = Len(call.doc)
        /\ \A i \in 1..Len(call.doc) :
              /\ call.result.doc[i].rot = call.doc[i].rot
              /\ call.result.doc[i].contents = call.doc[i].contents
              /\ call.result.doc[i].mediabox = call.doc[i].mediabox
              /\ Len(call.result.doc[i].overlays) = 1
              /\ call.result.doc[i].overlays[1].pagesize = call.doc[i].mediabox
        /\ ( /\ call.imageFile # "image"
             /\ ~PyEndsWith(PyLower(call.image_path), DotSvg) ) =>
               Len(call.result.out) = Len(call.doc)

====
